---- MODULE Spec2Model ----
(***************************************************************************)
(* State-machine model of the load-generation engine of dnsperf.c:         *)
(* per-worker query slot table with the two intrusive lists, the sender    *)
(* (do_send), the receiver (do_recv, process_timeouts), the coordinator    *)
(* (main, threadinfo_stop, threadinfo_cleanup, cancel_queries) and the     *)
(* environment (clock, server, SIGINT).                                    *)
(*                                                                         *)
(* Times are in clock ticks.  uint64_t counters are kept as integers; the  *)
(* only place where unsigned wrap-around decides a branch is               *)
(* num_outstanding(), whose comparisons are modelled by U64GE / U64IsZero. *)
(***************************************************************************)
EXTENDS Integers, Sequences, FiniteSets, TLC

\* ---------------------------------------------------------------- bounds
\* Number of query slots per worker (65536 in the source, scaled down).
NQIDS == 2
\* Receive batch size (16 in the source, scaled down).
RECV_BATCH_SIZE == 2
\* Number of clock ticks of a modelled run.
MaxTime == 1
\* Value of get_time() when the program starts.
Epoch == 4
\* Number of records one pass over the input file yields.
InputRecords == 2
\* Largest number of records handed out when the replay count is unlimited.
MaxFetch == 3
\* Clock ticks per second (10^6 in the source, scaled down).
MILLION == 3
\* Size of latency_detail (10^8 in the source, scaled down).
MAX_DETAIL_NUM == 3
\* Largest -T value, and largest -c, -q and -Q value, of the command lines
\* the quota computation is checked on.
MaxThreads == 3
MaxTotal == 4

\* ------------------------------------------------------- program constants
\* Acquired-but-not-yet-sent sentinel; larger than every clock value.
ISC_UINT64_MAX == 1000000
MAX_SOCKETS == 256
\* Number of RCODE counters in stats_t.
NRCODES == 16
\* uint64_t arithmetic is modulo ISC_UINT64_MAX + 1.
U64(x) == x % (ISC_UINT64_MAX + 1)

NULL == -1

Slots == 0 .. (NQIDS - 1)

Min(a, b) == IF a < b THEN a ELSE b

VARIABLES
    config,        \* config_t, fixed after setup()
    times,         \* times_t: start_time, stop_time, end_time
    started,       \* start barrier flag
    interrupted,   \* global interrupted flag
    clock,         \* value get_time() returns
    input_pos,     \* records handed out by perf_datafile_next
    mainpipe,      \* a byte has been written to mainpipe[1]
    main,          \* coordinator: pc, thread index, report totals
    threads,       \* threadinfo_t per worker
    lock,          \* holder of tinfo->lock per worker
    snd,           \* do_send locals per worker (q is NULL while dead)
    rcv,           \* do_recv locals per worker; late is the set of
                   \* indices of recvd[] filled from a late response
    net,           \* per worker: queries on the wire, responses readable;
                   \* a message is late once its query has been timed out
    stats_thread   \* do_interval_stats locals; pc is "none" without -S

vars == << config, times, started, interrupted, clock, input_pos, mainpipe,
           main, threads, lock, snd, rcv, net, stats_thread >>

Workers == 0 .. (config.threads - 1)

\* ------------------------------------------------------------ per_thread
\* per_thread without the adjustment for the shortfall.
per_thread_NoShortfall(total, nthreads, offset) == total \div nthreads

per_thread(total, nthreads, offset) ==
    LET value      == total \div nthreads
        temp_total == value * nthreads
    IN  IF temp_total < total /\ offset < total - temp_total
        THEN value + 1 ELSE value

\* tinfo->max_outstanding without the limit of NQIDS.
max_outstanding_NoCap(k) ==
    per_thread(config.max_outstanding, config.threads, k)

\* tinfo->max_outstanding, tinfo->max_qps, tinfo->nsocks as threadinfo_init
\* computes them.
max_outstanding(k) ==
    Min(per_thread(config.max_outstanding, config.threads, k), NQIDS)
max_qps(k) == per_thread(config.max_qps, config.threads, k)
nsocks(k) == Min(per_thread(config.clients, config.threads, k), MAX_SOCKETS)

\* ------------------------------------------------------- list primitives
ISC_LIST_HEAD(list) == IF Len(list) = 0 THEN NULL ELSE list[1]
ISC_LIST_TAIL(list) == IF Len(list) = 0 THEN NULL ELSE list[Len(list)]
ISC_LIST_UNLINK(list, q) == SelectSeq(list, LAMBDA x : x # q)

\* The slots linked on a list.
Members(list) == { list[i] : i \in 1 .. Len(list) }

\* History kept with every slot: before is the set of slots that were on
\* unused when the slot was last appended to it and have not been acquired
\* since.  Acquiring q retags it and takes it out of every such set.
Acquired(queries, q) ==
    [p \in Slots |->
       IF p = q THEN [queries[p] EXCEPT !.list = "outstanding", !.before = {}]
       ELSE [queries[p] EXCEPT !.before = @ \ {q}]]

\* query_move with the retagging of append_unused left out.
query_move_NoTag(T, q, op) ==
    LET tag == T.queries[q].list
        u1  == IF tag = "unused"
               THEN ISC_LIST_UNLINK(T.unused_queries, q)
               ELSE T.unused_queries
        o1  == IF tag = "outstanding"
               THEN ISC_LIST_UNLINK(T.outstanding_queries, q)
               ELSE T.outstanding_queries
    IN  CASE op = "prepend_unused" ->
               [T EXCEPT !.queries[q].list = "unused",
                         !.unused_queries = <<q>> \o u1,
                         !.outstanding_queries = o1]
          [] op = "append_unused" ->
               [T EXCEPT !.queries[q].before = Members(u1),
                         !.unused_queries = Append(u1, q),
                         !.outstanding_queries = o1]
          [] op = "prepend_outstanding" ->
               [T EXCEPT !.queries = Acquired(T.queries, q),
                         !.unused_queries = u1,
                         !.outstanding_queries = <<q>> \o o1]

\* query_move on a threadinfo record T: unlink q from the list its tag
\* names, retag it and link it at the head or tail of the target list.
query_move(T, q, op) ==
    LET tag == T.queries[q].list
        u1  == IF tag = "unused"
               THEN ISC_LIST_UNLINK(T.unused_queries, q)
               ELSE T.unused_queries
        o1  == IF tag = "outstanding"
               THEN ISC_LIST_UNLINK(T.outstanding_queries, q)
               ELSE T.outstanding_queries
    IN  CASE op = "prepend_unused" ->
               [T EXCEPT !.queries[q].list = "unused",
                         !.unused_queries = <<q>> \o u1,
                         !.outstanding_queries = o1]
          [] op = "append_unused" ->
               [T EXCEPT !.queries[q].list = "unused",
                         !.queries[q].before = Members(u1),
                         !.unused_queries = Append(u1, q),
                         !.outstanding_queries = o1]
          [] op = "prepend_outstanding" ->
               [T EXCEPT !.queries = Acquired(T.queries, q),
                         !.unused_queries = u1,
                         !.outstanding_queries = <<q>> \o o1]

\* num_outstanding(stats) as a mathematical integer; the C value is this
\* difference modulo 2^64.
num_outstanding(stats) ==
    stats.num_sent - stats.num_completed - stats.num_timedout

\* (uint64_t)d >= m for -2^64 < d < 2^64 and 0 <= m < 2^63: a negative
\* difference wraps to a value above every m.
U64GE_Strict(d, m) == d < 0 \/ d > m
U64GE(d, m) == d < 0 \/ d >= m
\* (uint64_t)d == 0
U64IsZero(d) == d = 0

\* ------------------------------------------------------------------ Init
InitQuery == [timestamp |-> 0, list |-> "unused", desc |-> FALSE, sock |-> 0,
              before |-> {}]

InitStats == [num_sent |-> 0, num_interrupted |-> 0,
              num_timedout |-> 0, num_completed |-> 0,
              rcodecounts |-> [r \in 0 .. (NRCODES - 1) |-> 0],
              latency_min |-> 0, latency_max |-> 0]

InitRecvd == [sock |-> 0, qid |-> 0, rcode |-> 0, when |-> 0, sent |-> 0,
              unexpected |-> FALSE, short_response |-> FALSE, desc |-> FALSE]

\* threadinfo_init: every slot appended to unused in index order.
InitThread ==
    [queries             |-> [q \in Slots |->
                                [InitQuery EXCEPT !.before = 0 .. (q - 1)]],
     outstanding_queries |-> << >>,
     unused_queries      |-> [i \in 1 .. NQIDS |-> i - 1],
     stats               |-> InitStats,
     done_sending        |-> FALSE,
     current_sock        |-> 0,
     latency_detail      |-> [j \in 0 .. (MAX_DETAIL_NUM - 1) |-> 0],
     latency_num         |-> 0]

\* probe is the result of the readiness probe that ended the last socket
\* selection.
InitSnd == [pc |-> "start", q |-> NULL, now |-> 0, probe |-> "none"]

\* The interval-statistics thread before it has run.
InitStatsThread(c) ==
    [pc |-> IF c.stats_interval > 0 THEN "init" ELSE "none",
     last_interval_time |-> 0, last_completed |-> 0]

InitRcv == [pc |-> "start", now |-> 0, q |-> NULL, i |-> 0, nrecvd |-> 0,
            late |-> {},
            saved_errno |-> "none", socketbits |-> {}, last_socket |-> 0,
            recvd |-> [i \in 0 .. (RECV_BATCH_SIZE - 1) |-> InitRecvd]]

\* setup() without the reduction of the thread count to max_qps.
setup_NoQpsReduction(c) ==
    LET c1 == IF c.maxruns = 0 /\ c.timelimit = 0
              THEN [c EXCEPT !.maxruns = 1] ELSE c
    IN  IF c1.threads > c1.clients
        THEN [c1 EXCEPT !.threads = c1.clients] ELSE c1

\* setup(): defaults and the two thread-count reductions.
setup(c) ==
    LET c1 == IF c.maxruns = 0 /\ c.timelimit = 0
              THEN [c EXCEPT !.maxruns = 1] ELSE c
        c2 == IF c1.max_qps > 0 /\ c1.threads > c1.max_qps
              THEN [c1 EXCEPT !.threads = c1.max_qps] ELSE c1
    IN  IF c2.threads > c2.clients
        THEN [c2 EXCEPT !.threads = c2.clients] ELSE c2

InitWith(cfgs) ==
    /\ config \in { setup(c) : c \in cfgs }
    /\ times = [start_time |-> 0, stop_time |-> 0]
    /\ started = FALSE
    /\ interrupted = FALSE
    /\ clock = Epoch
    /\ input_pos = 0
    /\ mainpipe = FALSE
    /\ main = [pc |-> "init", i |-> 0, total |-> InitStats]
    /\ threads = [k \in Workers |-> InitThread]
    /\ lock = [k \in Workers |-> "free"]
    /\ snd = [k \in Workers |-> InitSnd]
    /\ rcv = [k \in Workers |-> InitRcv]
    /\ net = [k \in Workers |-> [wire |-> {}, resp |-> {}]]
    /\ stats_thread = InitStatsThread(config)


\* ------------------------------------------------------ environment: time
\* get_time() advances during the run.
Tick ==
    /\ started
    /\ clock < Epoch + MaxTime
    /\ clock' = clock + 1
    /\ UNCHANGED << config, stats_thread, times, started, interrupted, input_pos, mainpipe,
                    main, threads, lock, snd, rcv, net >>

\* -------------------------------------------------------------- do_send
\* SIGNAL that wakes nobody.
Signal_Dropped(S) == S

\* SIGNAL(&tinfo->cond): wakes the sender if it is blocked in TIMEDWAIT.
Signal(S) == IF S.pc = "wait" THEN [S EXCEPT !.pc = "woken"] ELSE S

\* perf_datafile_next: end of data after maxruns passes over the file.
InputEOF == config.maxruns > 0 /\ input_pos >= config.maxruns * InputRecords
InputAvail == IF config.maxruns > 0 THEN ~InputEOF ELSE input_pos < MaxFetch

\* wait_for_start(); now = get_time();
SenderStart(k) ==
    /\ snd[k].pc = "start"
    /\ started
    /\ snd' = [snd EXCEPT ![k].pc = "loop", ![k].now = clock]
    /\ UNCHANGED << config, stats_thread, times, started, interrupted, clock, input_pos,
                    mainpipe, main, threads, lock, rcv, net >>

\* while (!interrupted && now < times->stop_time)
SenderLoopCond(k) == ~interrupted /\ snd[k].now < times.stop_time

\* "Avoid flooding the network too quickly": the value of now after the
\* optional sleep.
SenderPacedNow(k) ==
    LET st == threads[k].stats
    IN  IF st.num_sent < max_outstanding(k) /\ st.num_sent % 2 = 1
        THEN clock ELSE snd[k].now

RateLimited_Double(k) ==
    /\ max_qps(k) > 0
    /\ (MILLION * threads[k].stats.num_sent) \div (2 * max_qps(k))
         > SenderPacedNow(k) - times.start_time

\* req_time > run_time of the rate limiter.
RateLimited(k) ==
    /\ max_qps(k) > 0
    /\ (MILLION * threads[k].stats.num_sent) \div max_qps(k)
         > SenderPacedNow(k) - times.start_time

\* The loop condition fails: leave the loop.
SenderExit(k) ==
    /\ snd[k].pc = "loop"
    /\ ~SenderLoopCond(k)
    /\ snd' = [snd EXCEPT ![k].pc = "drain"]
    /\ UNCHANGED << config, stats_thread, times, started, interrupted, clock, input_pos,
                    mainpipe, main, threads, lock, rcv, net >>

\* Rate limiting: usleep(req_time - run_time) begins.  While the sender
\* sleeps its local now is dead; the field holds the time the sleep ends.
SenderRateSleep(k) ==
    /\ snd[k].pc = "loop"
    /\ SenderLoopCond(k)
    /\ RateLimited(k)
    /\ LET req_time == (MILLION * threads[k].stats.num_sent) \div max_qps(k)
           run_time == SenderPacedNow(k) - times.start_time
       IN  snd' = [snd EXCEPT ![k].pc = "sleep",
                              ![k].now = clock + (req_time - run_time)]
    /\ UNCHANGED << config, stats_thread, times, started, interrupted, clock, input_pos,
                    mainpipe, main, threads, lock, rcv, net >>

\* usleep returns; now = get_time(); continue.
SenderRateWake(k) ==
    /\ snd[k].pc = "sleep"
    /\ clock >= snd[k].now
    /\ snd' = [snd EXCEPT ![k].pc = "loop", ![k].now = clock]
    /\ UNCHANGED << config, stats_thread, times, started, interrupted, clock, input_pos,
                    mainpipe, main, threads, lock, rcv, net >>

\* LOCK; in-flight cap reached: TIMEDWAIT releases the lock and blocks.
SenderCapWait(k) ==
    /\ snd[k].pc = "loop"
    /\ SenderLoopCond(k)
    /\ ~RateLimited(k)
    /\ lock[k] = "free"
    /\ U64GE(num_outstanding(threads[k].stats), max_outstanding(k))
    /\ snd' = [snd EXCEPT ![k].pc = "wait", ![k].now = SenderPacedNow(k)]
    /\ UNCHANGED << config, stats_thread, times, started, interrupted, clock, input_pos,
                    mainpipe, main, threads, lock, rcv, net >>

\* TIMEDWAIT returns (signalled, or the stop_time deadline passed);
\* UNLOCK; now = get_time(); continue.
SenderWake(k) ==
    /\ \/ snd[k].pc = "woken"
       \/ snd[k].pc = "wait" /\ clock >= times.stop_time
    /\ lock[k] = "free"
    /\ snd' = [snd EXCEPT ![k].pc = "loop", ![k].now = clock]
    /\ UNCHANGED << config, stats_thread, times, started, interrupted, clock, input_pos,
                    mainpipe, main, threads, lock, rcv, net >>

\* LOCK; q = ISC_LIST_HEAD(unused); query_move(q, prepend_outstanding).
\* The lock stays held; q still carries the timestamp of its previous use.
SenderAcquire(k) ==
    /\ snd[k].pc = "loop"
    /\ SenderLoopCond(k)
    /\ ~RateLimited(k)
    /\ lock[k] = "free"
    /\ ~U64GE(num_outstanding(threads[k].stats), max_outstanding(k))
    /\ LET q == ISC_LIST_HEAD(threads[k].unused_queries)
       IN  IF q = NULL
           THEN \* NULL dereference in query_move
                /\ snd' = [snd EXCEPT ![k].pc = "crash"]
                /\ UNCHANGED << threads, lock >>
           ELSE /\ threads' = [threads EXCEPT
                      ![k] = query_move(@, q, "prepend_outstanding")]
                /\ lock' = [lock EXCEPT ![k] = "sender"]
                /\ snd' = [snd EXCEPT ![k].pc = "acquired", ![k].q = q,
                                      ![k].now = SenderPacedNow(k)]
    /\ UNCHANGED << config, stats_thread, times, started, interrupted, clock, input_pos,
                    mainpipe, main, rcv, net >>

\* q->timestamp = ISC_UINT64_MAX; the probe loop ends with a socket chosen
\* after m probes: the first m - 1 returned 0 (not ready) or -1 with
\* EINPROGRESS, the last one returned a result in results, which the switch
\* leaves through "default: break" ("ready": a return value other than 0
\* and -1; "timedout": -1 with an errno other than EINPROGRESS); UNLOCK.
SenderSelect(k, results) ==
    /\ snd[k].pc = "acquired"
    /\ \E m \in 1 .. (2 * nsocks(k)) :
         LET cs == threads[k].current_sock
             s  == ((cs + m - 1) % nsocks(k)) + 1
         IN  threads' = [threads EXCEPT
                 ![k].queries[snd[k].q].timestamp = ISC_UINT64_MAX,
                 ![k].queries[snd[k].q].sock = s,
                 ![k].current_sock = (cs + m) % nsocks(k)]
    /\ lock' = [lock EXCEPT ![k] = "free"]
    /\ \E res \in results :
         snd' = [snd EXCEPT ![k].pc = "fetch", ![k].probe = res]
    /\ UNCHANGED << config, stats_thread, times, started, interrupted, clock, input_pos,
                    mainpipe, main, rcv, net >>

\* The probe that ends the loop reports the socket ready.
SenderSelectSock(k) == SenderSelect(k, {"ready"})
\* The probe that ends the loop fails with an errno other than EINPROGRESS
\* ("readiness check timed out").
SenderSelectTimedOut(k) == SenderSelect(k, {"timedout"})

\* q->timestamp = ISC_UINT64_MAX; all 2*nsocks probes report not ready or
\* in progress: q->sock = 0; query_move(q, prepend_unused); UNLOCK;
\* now = get_time(); continue.
SenderNoSock(k) ==
    /\ snd[k].pc = "acquired"
    /\ LET T1 == [threads[k] EXCEPT
                    !.queries[snd[k].q].timestamp = ISC_UINT64_MAX,
                    !.queries[snd[k].q].sock = 0,
                    !.current_sock = (@ + 2 * nsocks(k)) % nsocks(k)]
       IN  threads' = [threads EXCEPT
                 ![k] = query_move(T1, snd[k].q, "prepend_unused")]
    /\ lock' = [lock EXCEPT ![k] = "free"]
    /\ snd' = [snd EXCEPT ![k].pc = "loop", ![k].q = NULL, ![k].now = clock,
                          ![k].probe = "none"]
    /\ UNCHANGED << config, stats_thread, times, started, interrupted, clock, input_pos,
                    mainpipe, main, rcv, net >>

\* perf_datafile_next fails (end of data): break.  The acquired slot stays
\* where it is.
SenderBreak(k) ==
    /\ snd[k].pc = "fetch"
    /\ InputEOF
    /\ snd' = [snd EXCEPT ![k].pc = "drain", ![k].q = NULL,
                          ![k].probe = "none"]
    /\ UNCHANGED << config, stats_thread, times, started, interrupted, clock, input_pos,
                    mainpipe, main, threads, lock, rcv, net >>

\* A record is read but perf_dns_buildrequest fails:
\* LOCK; query_move(q, prepend_unused); UNLOCK; now = get_time(); continue.
SenderEncodeFail(k) ==
    /\ snd[k].pc = "fetch"
    /\ InputAvail
    /\ lock[k] = "free"
    /\ input_pos' = input_pos + 1
    /\ threads' = [threads EXCEPT
             ![k] = query_move(@, snd[k].q, "prepend_unused")]
    /\ snd' = [snd EXCEPT ![k].pc = "loop", ![k].q = NULL, ![k].now = clock,
                          ![k].probe = "none"]
    /\ UNCHANGED << config, stats_thread, times, started, interrupted, clock, mainpipe,
                    main, lock, rcv, net >>

\* A record is read and encoded; now = get_time().
SenderBuild(k) ==
    /\ snd[k].pc = "fetch"
    /\ InputAvail
    /\ input_pos' = input_pos + 1
    /\ snd' = [snd EXCEPT ![k].pc = "stamp", ![k].now = clock]
    /\ UNCHANGED << config, stats_thread, times, started, interrupted, clock, mainpipe,
                    main, threads, lock, rcv, net >>

\* if (verbose) q->desc = strdup(...); q->timestamp = now;  (no lock held)
SenderStamp(k) ==
    /\ snd[k].pc = "stamp"
    /\ threads' = [threads EXCEPT
             ![k].queries[snd[k].q].desc = IF config.verbose THEN TRUE ELSE @,
             ![k].queries[snd[k].q].timestamp = snd[k].now]
    /\ snd' = [snd EXCEPT ![k].pc = "send"]
    /\ UNCHANGED << config, stats_thread, times, started, interrupted, clock, input_pos,
                    mainpipe, main, lock, rcv, net >>

\* perf_net_sendto transmits the whole packet, or reports EINPROGRESS (the
\* packet goes out later): the query is on its way to the server.
SenderSendOk(k) ==
    /\ snd[k].pc = "send"
    /\ net' = [net EXCEPT ![k].wire = @ \cup
                 { [qid |-> snd[k].q,
                    sock |-> threads[k].queries[snd[k].q].sock,
                    late |-> FALSE] }]
    /\ snd' = [snd EXCEPT ![k].pc = "count"]
    /\ UNCHANGED << config, stats_thread, times, started, interrupted, clock, input_pos,
                    mainpipe, main, threads, lock, rcv >>

\* stats->num_sent++ (no lock held); next iteration with the same now.
SenderCount(k) ==
    /\ snd[k].pc = "count"
    /\ threads' = [threads EXCEPT ![k].stats.num_sent = @ + 1]
    /\ snd' = [snd EXCEPT ![k].pc = "loop", ![k].q = NULL,
                          ![k].probe = "none"]
    /\ UNCHANGED << config, stats_thread, times, started, interrupted, clock, input_pos,
                    mainpipe, main, lock, rcv, net >>

\* perf_net_sendto fails (errno other than EINPROGRESS) or sends only part
\* of the packet: LOCK; query_move(q, prepend_unused); UNLOCK; continue.
SenderSendFail(k) ==
    /\ snd[k].pc = "send"
    /\ lock[k] = "free"
    /\ threads' = [threads EXCEPT
             ![k] = query_move(@, snd[k].q, "prepend_unused")]
    /\ snd' = [snd EXCEPT ![k].pc = "loop", ![k].q = NULL,
                          ![k].probe = "none"]
    /\ UNCHANGED << config, stats_thread, times, started, interrupted, clock, input_pos,
                    mainpipe, main, lock, rcv, net >>

\* After the loop: in-progress sockets are polled until none is pending;
\* done_sending = true; a byte is written to mainpipe[1]; return.
SenderDone(k) ==
    /\ snd[k].pc = "drain"
    /\ threads' = [threads EXCEPT ![k].done_sending = TRUE]
    /\ mainpipe' = TRUE
    /\ snd' = [snd EXCEPT ![k].pc = "done"]
    /\ UNCHANGED << config, stats_thread, times, started, interrupted, clock, input_pos,
                    main, lock, rcv, net >>

SenderCore(k) ==
    \/ SenderStart(k) \/ SenderExit(k)
    \/ SenderCapWait(k) \/ SenderWake(k) \/ SenderAcquire(k)
    \/ SenderSelectSock(k) \/ SenderNoSock(k) \/ SenderBreak(k)
    \/ SenderEncodeFail(k) \/ SenderBuild(k) \/ SenderStamp(k)
    \/ SenderSendOk(k) \/ SenderCount(k) \/ SenderSendFail(k)
    \/ SenderDone(k)

Sender(k) == SenderCore(k) \/ SenderRateSleep(k) \/ SenderRateWake(k)


\* ----------------------------------------------------- process_timeouts
Expired(T, q, now) ==
    LET ts == T.queries[q].timestamp
    IN  ~(ts > now) /\ ~(now - ts < config.timeout)

\* The sweep ending after its first slot.
TimeoutLoop_Once(T, q, now) ==
    [query_move(T, q, "append_unused") EXCEPT !.stats.num_timedout = @ + 1]

\* The do-while loop of process_timeouts, entered with q chosen before the
\* lock was taken: q is moved and counted first, the condition is evaluated
\* on the new tail afterwards.
RECURSIVE TimeoutLoop(_, _, _)
TimeoutLoop(T, q, now) ==
    LET T1 == [query_move(T, q, "append_unused")
                 EXCEPT !.stats.num_timedout = @ + 1]
        q2 == ISC_LIST_TAIL(T1.outstanding_queries)
    IN  IF q2 # NULL /\ T1.queries[q2].timestamp < now
           /\ now - T1.queries[q2].timestamp >= config.timeout
        THEN TimeoutLoop(T1, q2, now)
        ELSE T1

\* The messages in flight that belong to a query the sweep from T to T1
\* has timed out become late.
MarkLate(N, T, T1) ==
    LET out(m) == /\ T.queries[m.qid].list = "outstanding"
                  /\ T1.queries[m.qid].list = "unused"
                  /\ T.queries[m.qid].sock = m.sock
        mark(M) == { [m EXCEPT !.late = @ \/ out(m)] : m \in M }
    IN  [wire |-> mark(N.wire), resp |-> mark(N.resp)]

\* --------------------------------------------------------------- do_recv
\* wait_for_start(); now = get_time(); last_socket = 0;
RecvStart(k) ==
    /\ rcv[k].pc = "start"
    /\ started
    /\ rcv' = [rcv EXCEPT ![k].pc = "top", ![k].now = clock]
    /\ UNCHANGED << config, stats_thread, times, started, interrupted, clock, input_pos,
                    mainpipe, main, threads, lock, snd, net >>

\* while (!interrupted) fails: return.
RecvInterrupted(k) ==
    /\ rcv[k].pc = "top"
    /\ interrupted
    /\ rcv' = [rcv EXCEPT ![k].pc = "done"]
    /\ UNCHANGED << config, stats_thread, times, started, interrupted, clock, input_pos,
                    mainpipe, main, threads, lock, snd, net >>

\* process_timeouts, the check made without the lock: read the tail of
\* outstanding and its timestamp.
RecvPeek(k) ==
    /\ rcv[k].pc = "top"
    /\ ~interrupted
    /\ LET q == ISC_LIST_TAIL(threads[k].outstanding_queries)
       IN  IF q = NULL \/ ~Expired(threads[k], q, rcv[k].now)
           THEN rcv' = [rcv EXCEPT ![k].pc = "check"]
           ELSE rcv' = [rcv EXCEPT ![k].pc = "sweep", ![k].q = q]
    /\ UNCHANGED << config, stats_thread, times, started, interrupted, clock, input_pos,
                    mainpipe, main, threads, lock, snd, net >>

\* process_timeouts: LOCK; do { ... } while (...); UNLOCK.
RecvSweep(k) ==
    /\ rcv[k].pc = "sweep"
    /\ lock[k] = "free"
    /\ threads' = [threads EXCEPT
             ![k] = TimeoutLoop(@, rcv[k].q, rcv[k].now)]
    /\ net' = [net EXCEPT ![k] = MarkLate(@, threads[k], threads'[k])]
    /\ rcv' = [rcv EXCEPT ![k].pc = "check", ![k].q = NULL]
    /\ UNCHANGED << config, stats_thread, times, started, interrupted, clock, input_pos,
                    mainpipe, main, lock, snd >>

\* if (tinfo->done_sending && num_outstanding(stats) == 0) break;
RecvFinish(k) ==
    /\ rcv[k].pc = "check"
    /\ threads[k].done_sending
    /\ U64IsZero(num_outstanding(threads[k].stats))
    /\ rcv' = [rcv EXCEPT ![k].pc = "done"]
    /\ UNCHANGED << config, stats_thread, times, started, interrupted, clock, input_pos,
                    mainpipe, main, threads, lock, snd, net >>

\* Otherwise start a batch: saved_errno = 0; memset(socketbits); i = 0.
RecvBeginBatch(k) ==
    /\ rcv[k].pc = "check"
    /\ ~(threads[k].done_sending
         /\ U64IsZero(num_outstanding(threads[k].stats)))
    /\ rcv' = [rcv EXCEPT ![k].pc = "gather", ![k].i = 0,
                          ![k].saved_errno = "none", ![k].socketbits = {}]
    /\ UNCHANGED << config, stats_thread, times, started, interrupted, clock, input_pos,
                    mainpipe, main, threads, lock, snd, net >>

\* What the outcome of an iteration that read no response carries as r.
NoResponse == [qid |-> 0, sock |-> 0, late |-> FALSE, short |-> FALSE,
               rcode |-> 0]

\* The inner for loop (over j) of one batch iteration, from position j with
\* the given socketbits and saved_errno: the set of ways it can end.
\*   ok:        recv_one succeeded on socket index c with response r
\*   err:       recv_one failed on c with an errno other than EAGAIN
\*   exhausted: j reached nsocks
RECURSIVE GatherInner(_, _, _, _)
GatherInner(k, j, bits, errno) ==
    IF j = nsocks(k)
    THEN { [kind |-> "exhausted", c |-> 0, r |-> NoResponse,
            bits |-> bits, errno |-> errno] }
    ELSE LET c     == (j + rcv[k].last_socket) % nsocks(k)
             ready == { r \in net[k].resp : r.sock = c + 1 }
         IN  IF c \in bits
             THEN GatherInner(k, j + 1, bits, errno)
             ELSE IF ready # {}
             THEN { [kind |-> "ok", c |-> c, r |-> r,
                     bits |-> bits, errno |-> errno] : r \in ready }
             ELSE { [kind |-> "err", c |-> c, r |-> NoResponse,
                     bits |-> bits \cup {c}, errno |-> "EINTR"] }
                  \cup GatherInner(k, j + 1, bits \cup {c}, "EAGAIN")

\* recv_one filling recvd[i] from response r read on socket index c.
recv_one(c, r, now) ==
    [sock |-> c + 1, qid |-> r.qid, rcode |-> r.rcode % NRCODES,
     when |-> now, sent |-> 0,
     unexpected |-> FALSE, short_response |-> r.short, desc |-> FALSE]

\* One iteration (one value of i) of the batch loop.  When the loop ends
\* nrecvd = i is set.
RecvGather(k, kinds) ==
    /\ rcv[k].pc = "gather"
    /\ \E o \in GatherInner(k, 0, rcv[k].socketbits, rcv[k].saved_errno) :
         /\ o.kind \in kinds
         /\ LET i1   == IF o.kind = "exhausted" THEN rcv[k].i
                        ELSE rcv[k].i + 1
                over == o.kind = "exhausted" \/ i1 = RECV_BATCH_SIZE
            IN  /\ rcv' = [rcv EXCEPT
                      ![k].recvd[rcv[k].i] =
                          IF o.kind = "ok"
                          THEN recv_one(o.c, o.r, clock) ELSE @,
                      ![k].late =
                          IF o.kind = "ok" /\ o.r.late
                          THEN @ \cup {rcv[k].i} ELSE @,
                      ![k].last_socket =
                          IF o.kind = "ok"
                          THEN (o.c + 1) % nsocks(k) ELSE @,
                      ![k].socketbits = o.bits,
                      ![k].saved_errno = o.errno,
                      ![k].i = i1,
                      ![k].nrecvd = IF over THEN i1 ELSE @,
                      ![k].pc = IF over THEN "correlate" ELSE "gather"]
                /\ net' = IF o.kind = "ok"
                          THEN [net EXCEPT ![k].resp = @ \ {o.r}]
                          ELSE net
    /\ UNCHANGED << config, stats_thread, times, started, interrupted, clock, input_pos,
                    mainpipe, main, threads, lock, snd >>

\* A response is read into recvd[i].
RecvGatherOk(k) == RecvGather(k, {"ok"})
\* recv fails with EINTR: recvd[i] is left as it was and i advances.
RecvGatherErr(k) == RecvGather(k, {"err"})
\* Every socket is marked in socketbits: the batch ends.
RecvGatherEnd(k) == RecvGather(k, {"exhausted"})

IsUnexpected_NoList(q, rec) ==
    \/ q.timestamp = ISC_UINT64_MAX
    \/ q.sock # rec.sock

\* The test that classifies recvd[i] as unexpected: the slot is not on
\* outstanding, holds the sentinel, or was sent on another socket.
IsUnexpected(q, rec) ==
    \/ q.list # "outstanding"
    \/ q.timestamp = ISC_UINT64_MAX
    \/ q.sock # rec.sock

\* The loop that runs under the lock, records i .. n-1 in order.
\* pair = [T |-> threadinfo, R |-> recvd array]
RECURSIVE CorrelateLoop(_, _, _)
CorrelateLoop(pair, i, n) ==
    IF i >= n THEN pair
    ELSE LET rec == pair.R[i]
             q   == pair.T.queries[rec.qid]
         IN  IF rec.short_response
             THEN CorrelateLoop(pair, i + 1, n)
             ELSE IF IsUnexpected(q, rec)
             THEN CorrelateLoop(
                      [pair EXCEPT !.R[i].unexpected = TRUE], i + 1, n)
             ELSE CorrelateLoop(
                      [T |-> [query_move(pair.T, rec.qid, "append_unused")
                                EXCEPT !.queries[rec.qid].desc = FALSE],
                       R |-> [pair.R EXCEPT ![i].sent = q.timestamp,
                                            ![i].desc = q.desc]],
                      i + 1, n)

\* LOCK; correlate the batch; SIGNAL(&tinfo->cond); UNLOCK.
RecvCorrelate(k) ==
    /\ rcv[k].pc = "correlate"
    /\ lock[k] = "free"
    /\ LET res == CorrelateLoop([T |-> threads[k], R |-> rcv[k].recvd],
                                0, rcv[k].nrecvd)
       IN  /\ threads' = [threads EXCEPT ![k] = res.T]
           /\ rcv' = [rcv EXCEPT ![k].recvd = res.R, ![k].pc = "post"]
    /\ snd' = [snd EXCEPT ![k] = Signal(@)]
    /\ UNCHANGED << config, stats_thread, times, started, interrupted, clock, input_pos,
                    mainpipe, main, lock, net >>

\* The records of the batch that the unlocked loop counts.
Counted(R, n) ==
    { i \in 0 .. (n - 1) : ~R[i].short_response /\ ~R[i].unexpected }

\* PostCount without the update of latency_max.
PostCount_NoMax(T, rec) ==
    LET latency == U64(rec.when - rec.sent)
        T1 == IF T.latency_num < MAX_DETAIL_NUM - 1
              THEN [T EXCEPT !.latency_detail[T.latency_num] = latency,
                             !.latency_num = @ + 1]
              ELSE T
        nc == T.stats.num_completed + 1
    IN  [T1 EXCEPT
           !.stats.num_completed = nc,
           !.stats.rcodecounts[rec.rcode] = @ + 1,
           !.stats.latency_min =
               IF latency < @ \/ nc = 1 THEN latency ELSE @]

\* PostCount without the RCODE counter.
PostCount_NoRcode(T, rec) ==
    LET latency == U64(rec.when - rec.sent)
        T1 == IF T.latency_num < MAX_DETAIL_NUM - 1
              THEN [T EXCEPT !.latency_detail[T.latency_num] = latency,
                             !.latency_num = @ + 1]
              ELSE T
        nc == T.stats.num_completed + 1
    IN  [T1 EXCEPT
           !.stats.num_completed = nc,
           !.stats.latency_min =
               IF latency < @ \/ nc = 1 THEN latency ELSE @,
           !.stats.latency_max = IF latency > @ THEN latency ELSE @]

\* One counted record in the unlocked loop: the latency is stored in
\* latency_detail while there is room, then the counters are updated.
PostCount(T, rec) ==
    LET latency == U64(rec.when - rec.sent)
        T1 == IF T.latency_num < MAX_DETAIL_NUM - 1
              THEN [T EXCEPT !.latency_detail[T.latency_num] = latency,
                             !.latency_num = @ + 1]
              ELSE T
        nc == T.stats.num_completed + 1
    IN  [T1 EXCEPT
           !.stats.num_completed = nc,
           !.stats.rcodecounts[rec.rcode] = @ + 1,
           !.stats.latency_min =
               IF latency < @ \/ nc = 1 THEN latency ELSE @,
           !.stats.latency_max = IF latency > @ THEN latency ELSE @]

\* for (i = 0; i < nrecvd; i++) of the unlocked loop.
RECURSIVE PostLoop(_, _, _, _)
PostLoop(T, R, i, n) ==
    IF i >= n THEN T
    ELSE IF R[i].short_response \/ R[i].unexpected
    THEN PostLoop(T, R, i + 1, n)
    ELSE PostLoop(PostCount(T, R[i]), R, i + 1, n)

\* The unlocked post-processing loop, recvd[i].desc being freed, and the
\* error handling that ends the iteration.  Locals that are dead from here
\* on (i, nrecvd, saved_errno and socketbits are reassigned before the next
\* read; recvd[].sent and recvd[].desc are overwritten by the correlation
\* before the next read) are stored in a canonical form.
RecvPost(k) ==
    /\ rcv[k].pc = "post"
    /\ LET R == rcv[k].recvd
           n == rcv[k].nrecvd
       IN  /\ threads' = [threads EXCEPT ![k] = PostLoop(@, R, 0, n)]
           /\ rcv' = [rcv EXCEPT
                 ![k].recvd = [i \in DOMAIN R |->
                                 IF i < n THEN [R[i] EXCEPT !.sent = 0,
                                                            !.desc = FALSE]
                                 ELSE R[i]],
                 ![k].i = 0, ![k].nrecvd = 0, ![k].saved_errno = "none",
                 ![k].late = {},
                 ![k].socketbits = {},
                 ![k].pc = IF n < RECV_BATCH_SIZE
                           THEN CASE rcv[k].saved_errno = "EINTR" -> "top"
                                  [] rcv[k].saved_errno = "EAGAIN" -> "idle"
                                  [] OTHER -> "fatal"
                           ELSE "top"]
    /\ UNCHANGED << config, stats_thread, times, started, interrupted, clock, input_pos,
                    mainpipe, main, lock, snd, net >>

\* perf_os_waituntilanyreadable returns; now = get_time(); continue.
RecvIdle(k) ==
    /\ rcv[k].pc = "idle"
    /\ rcv' = [rcv EXCEPT ![k].pc = "top", ![k].now = clock]
    /\ UNCHANGED << config, stats_thread, times, started, interrupted, clock, input_pos,
                    mainpipe, main, threads, lock, snd, net >>

ReceiverCore(k) ==
    \/ RecvStart(k) \/ RecvInterrupted(k) \/ RecvPeek(k) \/ RecvSweep(k)
    \/ RecvFinish(k) \/ RecvBeginBatch(k) \/ RecvGatherOk(k)
    \/ RecvGatherEnd(k) \/ RecvCorrelate(k)
    \/ RecvPost(k) \/ RecvIdle(k)

Receiver(k) == ReceiverCore(k) \/ RecvGatherErr(k)


\* ---------------------------------------------------------- cancel_queries
\* cancel_queries linking each slot at the head of unused.
RECURSIVE cancel_queries_Prepend(_)
cancel_queries_Prepend(T) ==
    LET q == ISC_LIST_TAIL(T.outstanding_queries)
    IN  IF q = NULL THEN T
        ELSE LET T1 == query_move(T, q, "prepend_unused")
             IN  IF T1.queries[q].timestamp = ISC_UINT64_MAX
                 THEN cancel_queries_Prepend(T1)
                 ELSE cancel_queries_Prepend(
                        [T1 EXCEPT !.stats.num_interrupted = @ + 1,
                                   !.queries[q].desc = FALSE])

RECURSIVE cancel_queries(_)
cancel_queries(T) ==
    LET q == ISC_LIST_TAIL(T.outstanding_queries)
    IN  IF q = NULL THEN T
        ELSE LET T1 == query_move(T, q, "append_unused")
             IN  IF T1.queries[q].timestamp = ISC_UINT64_MAX
                 THEN cancel_queries(T1)
                 ELSE cancel_queries(
                        [T1 EXCEPT !.stats.num_interrupted = @ + 1,
                                   !.queries[q].desc = FALSE])

\* ---------------------------------------------------------------- sum_stats
RECURSIVE SumOver(_, _)
SumOver(f, n) == IF n = 0 THEN 0 ELSE f[n - 1] + SumOver(f, n - 1)

\* The latency_min / latency_max part of the loop over the workers, from
\* worker i on, total being the value accumulated so far.
RECURSIVE SumLatency(_, _, _, _)
SumLatency(thr, i, nthreads, total) ==
    IF i >= nthreads THEN total
    ELSE LET stats == thr[i].stats
             t1 == IF stats.latency_min < total.latency_min \/ i = 0
                   THEN [total EXCEPT !.latency_min = stats.latency_min]
                   ELSE total
             t2 == IF stats.latency_max > t1.latency_max
                   THEN [t1 EXCEPT !.latency_max = stats.latency_max]
                   ELSE t1
         IN  SumLatency(thr, i + 1, nthreads, t2)

sum_stats(thr, nthreads) ==
    SumLatency(thr, 0, nthreads,
    [num_sent        |-> SumOver([i \in 0 .. (nthreads - 1) |->
                                    thr[i].stats.num_sent], nthreads),
     num_interrupted |-> SumOver([i \in 0 .. (nthreads - 1) |->
                                    thr[i].stats.num_interrupted], nthreads),
     num_timedout    |-> SumOver([i \in 0 .. (nthreads - 1) |->
                                    thr[i].stats.num_timedout], nthreads),
     num_completed   |-> SumOver([i \in 0 .. (nthreads - 1) |->
                                    thr[i].stats.num_completed], nthreads),
     rcodecounts     |-> [r \in 0 .. (NRCODES - 1) |->
                            SumOver([i \in 0 .. (nthreads - 1) |->
                                       thr[i].stats.rcodecounts[r]],
                                    nthreads)],
     latency_min     |-> 0,
     latency_max     |-> 0])

\* -------------------------------------------------------------------- main
\* times.start_time = get_time(); stop_time; started = true; BROADCAST.
MainStart ==
    /\ main.pc = "init"
    /\ times' = [start_time |-> clock,
                 stop_time  |-> IF config.timelimit > 0
                                THEN clock + config.timelimit
                                ELSE ISC_UINT64_MAX]
    /\ started' = TRUE
    /\ main' = [main EXCEPT !.pc = "wait"]
    /\ UNCHANGED << config, stats_thread, interrupted, clock, input_pos, mainpipe,
                    threads, lock, snd, rcv, net >>

\* SIGINT: handle_sigint writes to intrpipe, perf_os_waituntilreadable
\* returns ISC_R_CANCELED: interrupted = true; threadpipe is written.
MainInterrupt ==
    /\ main.pc = "wait"
    /\ interrupted' = TRUE
    /\ main' = [main EXCEPT !.pc = "stop", !.i = 0]
    /\ UNCHANGED << config, stats_thread, times, started, clock, input_pos, mainpipe,
                    threads, lock, snd, rcv, net >>

\* perf_os_waituntilreadable returns because a sender wrote to mainpipe or
\* the time limit passed; threadpipe is written.
MainWake ==
    /\ main.pc = "wait"
    /\ mainpipe \/ clock >= times.stop_time
    /\ main' = [main EXCEPT !.pc = "stop", !.i = 0]
    /\ UNCHANGED << config, stats_thread, times, started, interrupted, clock, input_pos,
                    mainpipe, threads, lock, snd, rcv, net >>

\* threadinfo_stop(&threads[i]): SIGNAL(&tinfo->cond).
MainStopSignal ==
    /\ main.pc = "stop"
    /\ snd' = [snd EXCEPT ![main.i] = Signal(@)]
    /\ main' = [main EXCEPT !.pc = "join"]
    /\ UNCHANGED << config, stats_thread, times, started, interrupted, clock, input_pos,
                    mainpipe, threads, lock, rcv, net >>

\* threadinfo_stop(&threads[i]): JOIN(sender); JOIN(receiver); after the
\* last worker, JOIN(stats_thread.sender) if the thread was created.
MainJoin ==
    /\ main.pc = "join"
    /\ snd[main.i].pc = "done"
    /\ rcv[main.i].pc = "done"
    /\ main.i + 1 = config.threads => stats_thread.pc \in {"none", "done"}
    /\ main' = [main EXCEPT !.i = @ + 1,
                            !.pc = IF main.i + 1 = config.threads
                                   THEN "report" ELSE "stop"]
    /\ UNCHANGED << config, stats_thread, times, started, interrupted, clock, input_pos,
                    mainpipe, threads, lock, snd, rcv, net >>

\* sum_stats(&config, &total_stats); print_statistics(...).
MainReport ==
    /\ main.pc = "report"
    /\ main' = [main EXCEPT !.pc = "cleanup",
                            !.total = sum_stats(threads, config.threads)]
    /\ UNCHANGED << config, stats_thread, times, started, interrupted, clock, input_pos,
                    mainpipe, threads, lock, snd, rcv, net >>

\* threadinfo_cleanup for every worker: if (interrupted) cancel_queries.
MainCleanup ==
    /\ main.pc = "cleanup"
    /\ threads' = [k \in Workers |->
                     IF interrupted THEN cancel_queries(threads[k])
                     ELSE threads[k]]
    /\ main' = [main EXCEPT !.pc = "done"]
    /\ UNCHANGED << config, stats_thread, times, started, interrupted, clock, input_pos,
                    mainpipe, lock, snd, rcv, net >>

Main ==
    \/ MainStart \/ MainInterrupt \/ MainWake \/ MainStopSignal
    \/ MainJoin \/ MainReport \/ MainCleanup

\* ------------------------------------------------------ do_interval_stats
\* What a read of main's times, a local variable without initializer, can
\* return before main has assigned it.
Indeterminate == {0, Epoch + MaxTime, ISC_UINT64_MAX}

\* last_interval_time = tinfo->times->start_time, executed as soon as the
\* thread runs: before main's assignment the value read is indeterminate.
StatsReadStart ==
    /\ stats_thread.pc = "init"
    /\ \E v \in IF main.pc = "init" THEN Indeterminate
                 ELSE {times.start_time} :
         stats_thread' = [stats_thread EXCEPT !.pc = "start",
                                              !.last_interval_time = v]
    /\ UNCHANGED << config, times, started, interrupted, clock, input_pos,
                    mainpipe, main, threads, lock, snd, rcv, net >>

\* wait_for_start() returns.
StatsStart ==
    /\ stats_thread.pc = "start"
    /\ started
    /\ stats_thread' = [stats_thread EXCEPT !.pc = "loop"]
    /\ UNCHANGED << config, times, started, interrupted, clock, input_pos,
                    mainpipe, main, threads, lock, snd, rcv, net >>

\* perf_os_waituntilreadable times out: the interval is reported;
\* last_interval_time = now; last_completed = total.num_completed.
StatsInterval ==
    /\ stats_thread.pc = "loop"
    /\ main.pc \in {"init", "wait"}
    /\ stats_thread' =
         [stats_thread EXCEPT
            !.last_interval_time = clock,
            !.last_completed =
                sum_stats(threads, config.threads).num_completed]
    /\ UNCHANGED << config, times, started, interrupted, clock, input_pos,
                    mainpipe, main, threads, lock, snd, rcv, net >>

\* threadpipe is readable (main has written to it): return.
StatsExit ==
    /\ stats_thread.pc = "loop"
    /\ main.pc \notin {"init", "wait"}
    /\ stats_thread' = [stats_thread EXCEPT !.pc = "done"]
    /\ UNCHANGED << config, times, started, interrupted, clock, input_pos,
                    mainpipe, main, threads, lock, snd, rcv, net >>

StatsThread == StatsReadStart \/ StatsStart \/ StatsInterval \/ StatsExit

\* ------------------------------------------------------ environment: server
\* The server answers a query that reached it; rcodes are the values
\* ntohs(packet_header[1]) the answer may carry.
ServerAnswer(k, rcodes) ==
    /\ \E w \in net[k].wire, rc \in rcodes :
         net' = [net EXCEPT ![k].wire = @ \ {w},
                            ![k].resp = @ \cup
                              { [qid |-> w.qid, sock |-> w.sock,
                                 late |-> w.late, short |-> FALSE,
                                 rcode |-> rc] }]
    /\ UNCHANGED << config, stats_thread, times, started, interrupted, clock, input_pos,
                    mainpipe, main, threads, lock, snd, rcv >>

\* The answer is NOERROR.
ServerReply(k) == ServerAnswer(k, {0})
\* The answer carries another RCODE (SERVFAIL, REFUSED with the second
\* header word as the receiver reads it).
ServerReplyRcode(k) == ServerAnswer(k, {2, 5 + NRCODES})

\* A query or its answer is lost.
ServerDrop(k) ==
    /\ \E w \in net[k].wire : net' = [net EXCEPT ![k].wire = @ \ {w}]
    /\ UNCHANGED << config, stats_thread, times, started, interrupted, clock, input_pos,
                    mainpipe, main, threads, lock, snd, rcv >>

\* A datagram nobody asked for arrives on a socket of the worker: any ID,
\* possibly shorter than 4 bytes.
ServerBogus(k) ==
    /\ started
    /\ net[k].resp = {}
    /\ \E q \in Slots, s \in 1 .. nsocks(k), sh \in BOOLEAN :
         net' = [net EXCEPT ![k].resp = { [qid |-> q, sock |-> s,
                                           late |-> FALSE,
                                           short |-> sh, rcode |-> 0] }]
    /\ UNCHANGED << config, stats_thread, times, started, interrupted, clock, input_pos,
                    mainpipe, main, threads, lock, snd, rcv >>

\* ------------------------------------------------------------ specification
\* One worker with one socket, one pass over the input, send and encoder
\* failures, a timeout of one tick, SIGINT; the server answers or drops.
Configs ==
    [threads : {1}, clients : {1}, maxruns : {1}, timelimit : {0},
     timeout : {1}, max_outstanding : {1}, max_qps : {0},
     verbose : {TRUE},
     stats_interval : {0}]

Init == InitWith(Configs)

Next ==
    \/ Tick
    \/ Main
    \/ \E k \in Workers : SenderCore(k)
    \/ \E k \in Workers : ReceiverCore(k)
    \/ \E k \in Workers : ServerReply(k) \/ ServerDrop(k)

Spec == Init /\ [][Next]_vars

\* The same run with the rate limiter on: max_qps = 2 for the one worker.
RateConfigs ==
    [threads : {1}, clients : {1}, maxruns : {1}, timelimit : {0},
     timeout : {1}, max_outstanding : {2}, max_qps : {2},
     verbose : {FALSE},
     stats_interval : {0}]

RateInit == InitWith(RateConfigs)

RateNext ==
    \/ Tick
    \/ Main
    \/ \E k \in Workers : Sender(k)
    \/ \E k \in Workers : ReceiverCore(k)
    \/ \E k \in Workers : ServerReply(k) \/ ServerDrop(k)

RateSpec == RateInit /\ [][RateNext]_vars

\* A run without SIGINT, send or encoder failure and without loss: a socket
\* is always ready, the timeout is longer than the run and the server
\* answers every query.
HappyConfigs ==
    [threads : {1}, clients : {1}, maxruns : {1}, timelimit : {0},
     timeout : {MaxTime + 1}, max_outstanding : {1}, max_qps : {0},
     verbose : {FALSE},
     stats_interval : {0}]

HappyInit == InitWith(HappyConfigs)

HappyMain ==
    \/ MainStart \/ MainWake \/ MainStopSignal
    \/ MainJoin \/ MainReport \/ MainCleanup

HappySender(k) ==
    /\ k \in Workers
    /\ \/ SenderStart(k) \/ SenderExit(k)
       \/ SenderCapWait(k) \/ SenderWake(k) \/ SenderAcquire(k)
       \/ SenderSelectSock(k) \/ SenderBreak(k)
       \/ SenderBuild(k) \/ SenderStamp(k)
       \/ SenderSendOk(k) \/ SenderCount(k)
       \/ SenderDone(k)

HappyReceiver(k) == k \in Workers /\ ReceiverCore(k)

HappyServer(k) == k \in Workers /\ ServerReply(k)

HappyNext ==
    \/ Tick
    \/ HappyMain
    \/ \E k \in Workers : HappySender(k)
    \/ \E k \in Workers : HappyReceiver(k)
    \/ \E k \in Workers : HappyServer(k)

HappySpec == HappyInit /\ [][HappyNext]_vars

\* The same kind of run asked to use two threads with a global
\* max_outstanding of 1.  With one client setup() reduces the run to one
\* worker; with two clients there are two workers and the per-thread quota
\* of the second is 0.  The whole run lies within one reading of the clock;
\* every thread and the server run under weak fairness.
QuotaConfigs ==
    [threads : {2}, clients : {1, 2}, maxruns : {1}, timelimit : {0},
     timeout : {MaxTime + 1}, max_outstanding : {1}, max_qps : {0},
     verbose : {FALSE},
     stats_interval : {0}]

QuotaInit == InitWith(QuotaConfigs)

QuotaNext ==
    \/ HappyMain
    \/ \E k \in Workers : HappySender(k)
    \/ \E k \in Workers : HappyReceiver(k)
    \/ \E k \in Workers : HappyServer(k)

ThreadFair(k) ==
    /\ WF_vars(HappySender(k))
    /\ WF_vars(HappyReceiver(k))
    /\ WF_vars(HappyServer(k))

QuotaSpec ==
    /\ QuotaInit /\ [][QuotaNext]_vars
    /\ WF_vars(HappyMain)
    /\ ThreadFair(0) /\ ThreadFair(1)

\* A run limited by time, not by input, observed before its time limit:
\* three queries, two of them in flight at once, a timeout of one tick, no
\* failure and no loss; a response may be late.
ReuseConfigs ==
    [threads : {1}, clients : {1}, maxruns : {0},
     timelimit : {MaxTime + 1}, timeout : {1}, max_outstanding : {2},
     max_qps : {0}, verbose : {FALSE},
     stats_interval : {0}]

ReuseInit == InitWith(ReuseConfigs)

ReuseNext ==
    \/ Tick
    \/ MainStart
    \/ \E k \in Workers : HappySender(k)
    \/ \E k \in Workers : HappyReceiver(k)
    \/ \E k \in Workers : HappyServer(k)

ReuseSpec == ReuseInit /\ [][ReuseNext]_vars

\* The receive path: one worker, no query expires, the server answers,
\* datagrams nobody asked for arrive, and a receive may fail with EINTR.
RecvConfigs ==
    [threads : {1}, clients : {1}, maxruns : {1}, timelimit : {0},
     timeout : {Epoch + MaxTime + 1}, max_outstanding : {1}, max_qps : {0},
     verbose : {TRUE},
     stats_interval : {0}]

RecvInit == InitWith(RecvConfigs)

RecvNext ==
    \/ HappyMain
    \/ \E k \in Workers : HappySender(k)
    \/ \E k \in Workers : Receiver(k)
    \/ \E k \in Workers : ServerReply(k) \/ ServerBogus(k)

RecvSpec == RecvInit /\ [][RecvNext]_vars

\* The receive path with answers of several RCODEs: one worker, a timeout of
\* one tick, no send failure; a receive may fail with EINTR.
RcodeConfigs ==
    [threads : {1}, clients : {1}, maxruns : {1}, timelimit : {0},
     timeout : {1}, max_outstanding : {1}, max_qps : {0},
     verbose : {FALSE},
     stats_interval : {0}]

RcodeInit == InitWith(RcodeConfigs)

RcodeNext ==
    \/ Tick
    \/ HappyMain
    \/ \E k \in Workers : HappySender(k)
    \/ \E k \in Workers : Receiver(k)
    \/ \E k \in Workers : ServerReply(k) \/ ServerReplyRcode(k)

RcodeSpec == RcodeInit /\ [][RcodeNext]_vars

\* The command lines with -T, -c, -q and -Q over their ranges, one of them
\* with more clients than a worker can have sockets, up to the start of the
\* threads.
SetupConfigs ==
    [threads : 1 .. MaxThreads,
     clients : (1 .. MaxTotal) \cup {MAX_SOCKETS + MaxTotal},
     maxruns : {1}, timelimit : {0}, timeout : {1},
     max_outstanding : 0 .. MaxTotal, max_qps : 0 .. MaxTotal,
     verbose : {FALSE},
     stats_interval : {0}]

SetupInit == InitWith(SetupConfigs)

SetupNext ==
    \/ MainStart
    \/ \E k \in Workers : SenderStart(k)
    \/ \E k \in Workers : RecvStart(k)

SetupSpec == SetupInit /\ [][SetupNext]_vars

\* sum_stats on its inputs: the state in which main has joined the threads
\* of a run without time limit, interrupt, timeout or failure, for every way
\* the workers can have shared the answered queries and every latency of
\* 0 .. MaxTime ticks.  What sum_stats does not read is left as
\* threadinfo_init sets it.
SumConfigs ==
    [threads : 2 .. MaxThreads, clients : {MaxThreads}, maxruns : {1},
     timelimit : {0}, timeout : {Epoch + MaxTime + 1},
     max_outstanding : {MaxThreads * NQIDS}, max_qps : {0},
     verbose : {FALSE},
     stats_interval : {0}]

\* The sequences of latencies of the queries one worker completed.
LatencySeqs ==
    UNION { [1 .. n -> 0 .. MaxTime] : n \in 0 .. InputRecords }

\* The threadinfo of a worker whose receiver counted answers with the
\* latencies lats[i ..], in this order.
RECURSIVE Joined(_, _, _)
Joined(T, lats, i) ==
    IF i > Len(lats)
    THEN [T EXCEPT !.stats.num_sent = Len(lats), !.done_sending = TRUE]
    ELSE Joined(PostCount(T, [InitRecvd EXCEPT !.sent = Epoch,
                                               !.when = Epoch + lats[i]]),
                lats, i + 1)

SumInit ==
    /\ config \in { setup(c) : c \in SumConfigs }
    /\ times = [start_time |-> Epoch, stop_time |-> ISC_UINT64_MAX]
    /\ started = TRUE
    /\ interrupted = FALSE
    /\ clock = Epoch + MaxTime
    /\ input_pos = InputRecords
    /\ mainpipe = TRUE
    /\ main = [pc |-> "report", i |-> config.threads, total |-> InitStats]
    /\ \E lats \in [Workers -> LatencySeqs] :
         /\ SumOver([k \in Workers |-> Len(lats[k])], config.threads)
              = InputRecords
         /\ threads = [k \in Workers |-> Joined(InitThread, lats[k], 1)]
    /\ lock = [k \in Workers |-> "free"]
    /\ snd = [k \in Workers |-> [InitSnd EXCEPT !.pc = "done"]]
    /\ rcv = [k \in Workers |-> [InitRcv EXCEPT !.pc = "done"]]
    /\ net = [k \in Workers |-> [wire |-> {}, resp |-> {}]]
    /\ stats_thread = InitStatsThread(config)

SumNext == MainReport \/ MainCleanup

SumSpec == SumInit /\ [][SumNext]_vars

\* Socket selection: one worker with two sockets whose readiness probes may
\* report not ready, in progress, ready or fail otherwise; no query expires,
\* nothing else fails and the server answers every query.
ProbeConfigs ==
    [threads : {1}, clients : {2}, maxruns : {1}, timelimit : {0},
     timeout : {Epoch + MaxTime + 1}, max_outstanding : {1}, max_qps : {0},
     verbose : {FALSE},
     stats_interval : {0}]

ProbeInit == InitWith(ProbeConfigs)

ProbeSender(k) ==
    /\ k \in Workers
    /\ \/ HappySender(k)
       \/ SenderSelectTimedOut(k)
       \/ SenderNoSock(k)

ProbeNext ==
    \/ HappyMain
    \/ \E k \in Workers : ProbeSender(k)
    \/ \E k \in Workers : HappyReceiver(k)
    \/ \E k \in Workers : HappyServer(k)

ProbeSpec == ProbeInit /\ [][ProbeNext]_vars

\* The in-flight cap under fair scheduling: one worker whose cap is one
\* query, a timeout of one tick, no time limit, no SIGINT and no failure;
\* the server answers or drops.  The coordinator, the sender and the
\* receiver run under weak fairness.
WakeConfigs ==
    [threads : {1}, clients : {1}, maxruns : {1}, timelimit : {0},
     timeout : {1}, max_outstanding : {1}, max_qps : {0},
     verbose : {FALSE},
     stats_interval : {0}]

WakeInit == InitWith(WakeConfigs)

WakeServer(k) == k \in Workers /\ (ServerReply(k) \/ ServerDrop(k))

WakeNext ==
    \/ Tick
    \/ HappyMain
    \/ \E k \in Workers : HappySender(k)
    \/ \E k \in Workers : HappyReceiver(k)
    \/ \E k \in Workers : WakeServer(k)

WakeSpec ==
    /\ WakeInit /\ [][WakeNext]_vars
    /\ WF_vars(HappyMain)
    /\ WF_vars(HappySender(0))
    /\ WF_vars(HappyReceiver(0))

\* Reuse of the slots: one worker with room for two queries in flight, no
\* query expires, a send may fail, the server answers and datagrams nobody
\* asked for arrive.
ListConfigs ==
    [threads : {1}, clients : {1}, maxruns : {1}, timelimit : {0},
     timeout : {Epoch + MaxTime + 1}, max_outstanding : {2}, max_qps : {0},
     verbose : {FALSE},
     stats_interval : {0}]

ListInit == InitWith(ListConfigs)

ListSender(k) == k \in Workers /\ (HappySender(k) \/ SenderSendFail(k))

ListServer(k) == k \in Workers /\ (ServerReply(k) \/ ServerBogus(k))

ListNext ==
    \/ HappyMain
    \/ \E k \in Workers : ListSender(k)
    \/ \E k \in Workers : HappyReceiver(k)
    \/ \E k \in Workers : ListServer(k)

ListSpec == ListInit /\ [][ListNext]_vars

\* The in-flight cap over its range: one worker, -q from 0 to more than the
\* number of slots, a timeout of one tick, send and encoder failures, no
\* SIGINT; the server answers or drops.
CapConfigs ==
    [threads : {1}, clients : {1}, maxruns : {1}, timelimit : {0},
     timeout : {1}, max_outstanding : 0 .. (NQIDS + 1), max_qps : {0},
     verbose : {FALSE},
     stats_interval : {0}]

CapInit == InitWith(CapConfigs)

CapNext ==
    \/ Tick
    \/ HappyMain
    \/ \E k \in Workers : SenderCore(k)
    \/ \E k \in Workers : ReceiverCore(k)
    \/ \E k \in Workers : ServerReply(k) \/ ServerDrop(k)

CapSpec == CapInit /\ [][CapNext]_vars

\* A run with -S: the interval-statistics thread runs beside one worker in
\* a run without failure, loss or SIGINT.
StatsConfigs ==
    [threads : {1}, clients : {1}, maxruns : {1}, timelimit : {0},
     timeout : {MaxTime + 1}, max_outstanding : {1}, max_qps : {0},
     verbose : {FALSE},
     stats_interval : {1}]

StatsInit == InitWith(StatsConfigs)

StatsNext ==
    \/ Tick
    \/ HappyMain
    \/ StatsThread
    \/ \E k \in Workers : HappySender(k)
    \/ \E k \in Workers : HappyReceiver(k)
    \/ \E k \in Workers : HappyServer(k)

StatsSpec == StatsInit /\ [][StatsNext]_vars

\* ------------------------------------------------------------------ claims
\* C1: every slot is on exactly one of the two lists, its list tag names
\* that list, and |outstanding| + |unused| = NQIDS, for every worker in
\* every reachable state.
OnList(list, q) == \E i \in 1 .. Len(list) : list[i] = q
Occurrences(list, q) == Cardinality({ i \in 1 .. Len(list) : list[i] = q })

C1_ListPartition ==
    \A k \in Workers :
      /\ Len(threads[k].outstanding_queries)
           + Len(threads[k].unused_queries) = NQIDS
      /\ \A q \in Slots :
           /\ Occurrences(threads[k].outstanding_queries, q)
                + Occurrences(threads[k].unused_queries, q) = 1
           /\ threads[k].queries[q].list = "outstanding"
                <=> OnList(threads[k].outstanding_queries, q)
           /\ threads[k].queries[q].list = "unused"
                <=> OnList(threads[k].unused_queries, q)

\* A slot has been timed out and is back on unused while another one is
\* outstanding.
C1_Witness ==
    \E k \in Workers :
      /\ threads[k].stats.num_timedout > 0
      /\ Len(threads[k].outstanding_queries) > 0
      /\ Len(threads[k].unused_queries) > 0


\* Slots of a worker that are on outstanding with a real send timestamp.
SentOutstanding(T) ==
    { q \in Slots : /\ OnList(T.outstanding_queries, q)
                    /\ T.queries[q].timestamp # ISC_UINT64_MAX }

Running(k) ==
    /\ snd[k].pc \notin {"start", "done"}
    /\ rcv[k].pc \notin {"start", "done"}

\* No update of a slot and its counter is half done: the sender is not
\* between acquiring a slot and storing the sentinel, nor between stamping
\* the slot and counting the send, and the receiver is not between
\* correlating a batch and counting it.
Settled(k) ==
    /\ snd[k].pc \notin {"acquired", "send", "count"}
    /\ rcv[k].pc # "post"

\* C2: while the sender and the receiver of a worker run,
\* num_sent - num_completed - num_timedout equals the number of slots on
\* outstanding whose timestamp is not the sentinel.  The claim asserts this
\* at all times; it is stated here for the settled states, in which it has
\* to hold under every reading of the claim.
C2_InFlightCount ==
    \A k \in Workers :
      (Running(k) /\ Settled(k)) =>
        num_outstanding(threads[k].stats)
          = Cardinality(SentOutstanding(threads[k]))

\* C3: once the threads are joined and cleanup has run, for every worker
\* num_sent = num_completed + num_timedout + num_interrupted + the number
\* of slots left on outstanding with a real timestamp.
C3_FinalBalance ==
    main.pc = "done" =>
      \A k \in Workers :
        threads[k].stats.num_sent
          = threads[k].stats.num_completed + threads[k].stats.num_timedout
            + threads[k].stats.num_interrupted
            + Cardinality(SentOutstanding(threads[k]))

Elapsed == clock - times.start_time

\* C5 as stated: with per-thread max_qps = Q > 0, at every moment
\* num_sent <= floor(Q * e / 10^6) + 1, e the time elapsed since start_time.
C5_RateBound ==
    \A k \in Workers :
      (started /\ max_qps(k) > 0) =>
        threads[k].stats.num_sent
          <= (max_qps(k) * Elapsed) \div MILLION + 1

\* C5 amended: the sender starts on query number n+1 only when
\* floor(10^6 * n / Q) <= now - start_time for the now it last read, and at
\* every moment num_sent <= floor(Q * (e + 1) / 10^6) + 1.
C5_RateBoundRounded ==
    /\ [](\A k \in Workers :
            (started /\ max_qps(k) > 0) =>
              threads[k].stats.num_sent
                <= (max_qps(k) * (Elapsed + 1)) \div MILLION + 1)
    /\ [][\A k \in Workers :
            (max_qps(k) > 0 /\ snd[k].pc = "loop"
               /\ snd'[k].pc = "acquired") =>
              /\ snd'[k].now <= clock
              /\ (MILLION * threads[k].stats.num_sent) \div max_qps(k)
                   <= snd'[k].now - times.start_time]_vars

\* The limiter has held the sender back and then let the second query out.
C5_Witness ==
    \E k \in Workers :
      /\ max_qps(k) > 0
      /\ threads[k].stats.num_sent = 2
      /\ Elapsed = 1

\* C6: without an interrupt, once the input is exhausted or stop_time is
\* reached, every sender sets done_sending, every sender and receiver
\* terminates, the joins return and the report is printed.
C6_Termination ==
    (InputEOF \/ (started /\ clock >= times.stop_time))
      ~> /\ main.pc \in {"cleanup", "done"}
         /\ \A k \in Workers :
              /\ threads[k].done_sending
              /\ snd[k].pc = "done"
              /\ rcv[k].pc = "done"

\* C7: in a run stopped by SIGINT the reported totals satisfy
\* num_interrupted + num_completed + num_timedout = num_sent.
C7_InterruptedReport ==
    (interrupted /\ main.pc \in {"cleanup", "done"}) =>
      main.total.num_interrupted + main.total.num_completed
        + main.total.num_timedout = main.total.num_sent

\* Totals over the workers at the end of the run.
Total(field) ==
    SumOver([k \in Workers |-> threads[k].stats[field]], config.threads)

\* C8: n passes over r records, no time limit, interrupt or failure, every
\* query answered before its timeout: at termination the total num_sent is
\* n * r, num_completed = num_sent and num_timedout = 0.
C8_AllCompleted ==
    main.pc = "done" =>
      /\ Total("num_sent") = config.maxruns * InputRecords
      /\ Total("num_completed") = Total("num_sent")
      /\ Total("num_timedout") = 0

\* C9 as stated: a response to a query that has been timed out is
\* classified as unexpected once it is correlated, whatever the sender has
\* done with the slot in the meantime, and so is never counted.
C9_LateUnexpected ==
    \A k \in Workers :
      rcv[k].pc = "post" =>
        \A i \in rcv[k].late :
          i < rcv[k].nrecvd => rcv[k].recvd[i].unexpected

\* C9 amended: a response to a timed-out query is classified as unexpected
\* when, at its correlation, the slot of its ID is on unused, holds the
\* sentinel or was sent on another socket; and the receiver adds to
\* num_completed only the records of the batch that are neither short nor
\* unexpected.
C9_LateUnexpectedUnlessResent ==
    /\ [][\A k \in Workers :
            (rcv[k].pc = "correlate" /\ rcv'[k].pc = "post") =>
              \A i \in rcv[k].late :
                (/\ i < rcv[k].nrecvd
                 /\ ~rcv[k].recvd[i].short_response
                 /\ LET q == threads[k].queries[rcv[k].recvd[i].qid]
                    IN  \/ q.list = "unused"
                        \/ q.timestamp = ISC_UINT64_MAX
                        \/ q.sock # rcv[k].recvd[i].sock)
                  => rcv'[k].recvd[i].unexpected]_vars
    /\ [][\A k \in Workers :
            (rcv[k].pc = "post" /\ rcv'[k].pc # "post") =>
              threads'[k].stats.num_completed
                = threads[k].stats.num_completed
                  + Cardinality({ i \in 0 .. (rcv[k].nrecvd - 1) :
                                    /\ ~rcv[k].recvd[i].short_response
                                    /\ ~rcv[k].recvd[i].unexpected })]_vars

\* A late response has been correlated while its slot was on unused.
C9_Witness ==
    \E k \in Workers :
      /\ rcv[k].pc = "post"
      /\ threads[k].stats.num_timedout > 0
      /\ \E i \in rcv[k].late :
           /\ i < rcv[k].nrecvd
           /\ rcv[k].recvd[i].unexpected
           /\ threads[k].queries[rcv[k].recvd[i].qid].list = "unused"

\* C10: a record is counted as completed only if, at correlation, the slot
\* of its ID is on outstanding, its timestamp is not the sentinel and its
\* socket is the arrival socket; a slot whose ID is carried only by short or
\* unexpected records keeps its list, timestamp, socket and desc, and a
\* batch of short or unexpected records changes no list and no counter.
C10_CorrelationFrame ==
    /\ [][\A k \in Workers :
            (rcv[k].pc = "correlate" /\ rcv'[k].pc = "post") =>
              LET R  == rcv[k].recvd
                  R1 == rcv'[k].recvd
                  n  == rcv[k].nrecvd
                  rejected(i) == R[i].short_response \/ R1[i].unexpected
              IN  /\ \A i \in 0 .. (n - 1) :
                       ~rejected(i) =>
                         LET q == threads[k].queries[R[i].qid]
                         IN  /\ q.list = "outstanding"
                             /\ q.timestamp # ISC_UINT64_MAX
                             /\ q.sock = R[i].sock
                  /\ \A q \in Slots :
                       (\A i \in 0 .. (n - 1) :
                          R[i].qid = q => rejected(i))
                         => threads'[k].queries[q] = threads[k].queries[q]
                  /\ (\A i \in 0 .. (n - 1) : rejected(i))
                       => threads'[k] = threads[k]]_vars
    /\ [][\A k \in Workers :
            (rcv[k].pc = "post" /\ rcv'[k].pc # "post"
               /\ \A i \in 0 .. (rcv[k].nrecvd - 1) :
                    \/ rcv[k].recvd[i].short_response
                    \/ rcv[k].recvd[i].unexpected)
              => threads'[k] = threads[k]]_vars

\* C11: cancel_queries, run for an interrupted worker, leaves outstanding
\* empty and every slot on unused, adds to num_interrupted exactly the number
\* of slots that were on outstanding with a real timestamp, and leaves no
\* slot it has taken off outstanding holding a desc.
C11_CancelQueries ==
    [][(main.pc = "cleanup" /\ main'.pc = "done" /\ interrupted) =>
         \A k \in Workers :
           /\ threads'[k].outstanding_queries = << >>
           /\ \A q \in Slots : threads'[k].queries[q].list = "unused"
           /\ threads'[k].stats.num_interrupted
                = threads[k].stats.num_interrupted
                  + Cardinality(SentOutstanding(threads[k]))
           /\ \A q \in Slots :
                OnList(threads[k].outstanding_queries, q)
                  => ~threads'[k].queries[q].desc]_vars

\* C12: for every worker, at every batch boundary of the receiver, every
\* rcodecounts[i] is >= 0 and rcodecounts[0..15] sum to num_completed; the
\* totals main reports satisfy the same equality.
C12_RcodeSum ==
    /\ \A k \in Workers :
         /\ \A r \in 0 .. (NRCODES - 1) : threads[k].stats.rcodecounts[r] >= 0
         /\ SumOver(threads[k].stats.rcodecounts, NRCODES)
              = threads[k].stats.num_completed
    /\ /\ \A r \in 0 .. (NRCODES - 1) : main.total.rcodecounts[r] >= 0
       /\ SumOver(main.total.rcodecounts, NRCODES) = main.total.num_completed

\* The report has been made after answers with two different RCODEs were
\* counted.
C12_Witness ==
    /\ main.pc = "done"
    /\ main.total.num_completed = 2
    /\ main.total.rcodecounts[2] = 1
    /\ main.total.rcodecounts[5] = 1

\* The latencies a worker has stored in latency_detail.
Stored(T) == { T.latency_detail[j] : j \in 0 .. (T.latency_num - 1) }

\* C13 as stated: for every worker and every latency l stored in
\* latency_detail, latency_min <= l <= latency_max and l > 0.
C13_LatencyBounds ==
    \A k \in Workers :
      \A l \in Stored(threads[k]) :
        /\ threads[k].stats.latency_min <= l
        /\ l <= threads[k].stats.latency_max
        /\ l > 0

\* C13 amended: for every worker and every latency l stored in
\* latency_detail, latency_min <= l <= latency_max and l >= 0; a stored
\* latency is the difference of two clock readings and is 0 when they are
\* equal.
C13_LatencyBoundsNonNeg ==
    /\ [](\A k \in Workers :
            \A l \in Stored(threads[k]) :
              /\ threads[k].stats.latency_min <= l
              /\ l <= threads[k].stats.latency_max
              /\ l >= 0)
    /\ [][\A k \in Workers :
            (rcv[k].pc = "post" /\ rcv'[k].pc # "post") =>
              \A l \in Stored(threads'[k]) \ Stored(threads[k]) :
                \E i \in 0 .. (rcv[k].nrecvd - 1) :
                  /\ ~rcv[k].recvd[i].short_response
                  /\ ~rcv[k].recvd[i].unexpected
                  /\ l = U64(rcv[k].recvd[i].when - rcv[k].recvd[i].sent)]_vars

\* Two different latencies are stored, one of them 0.
C13_Witness ==
    \E k \in Workers :
      /\ threads[k].latency_num = 2
      /\ threads[k].stats.latency_min = 0
      /\ threads[k].stats.latency_max = 1
      /\ Stored(threads[k]) = {0, 1}

\* The totals threadinfo_init hands to per_thread.
QuotaTotals == {config.max_outstanding, config.max_qps, config.clients}

\* C14: per_thread(total, N, k) = floor(total / N) + (1 if k < total mod N
\* else 0) for 0 <= k < N, and the values for k = 0 .. N-1 sum to total.
C14_PerThread ==
    \A total \in QuotaTotals :
      /\ \A k \in Workers :
           per_thread(total, config.threads, k)
             = (total \div config.threads)
               + (IF k < total % config.threads THEN 1 ELSE 0)
      /\ SumOver([k \in Workers |-> per_thread(total, config.threads, k)],
                 config.threads) = total

\* Three threads started with a total that leaves a remainder and a total
\* smaller than the thread count.
C14_Witness ==
    /\ started
    /\ config.threads = 3
    /\ config.max_outstanding = 2
    /\ config.clients = 4
    /\ \A k \in Workers : snd[k].pc = "loop"

\* C15: after setup and threadinfo_init, for clients >= 1, the thread count
\* N is at most clients and, with max_qps > 0, at most max_qps; every worker
\* has 1 <= nsocks <= MAX_SOCKETS, max_outstanding <= NQIDS and, with
\* max_qps > 0, a per-thread max_qps >= 1.
C15_SetupLimits ==
    config.clients >= 1 =>
      /\ config.threads <= config.clients
      /\ config.max_qps > 0 => config.threads <= config.max_qps
      /\ \A k \in Workers :
           /\ 1 <= nsocks(k)
           /\ nsocks(k) <= MAX_SOCKETS
           /\ max_outstanding(k) <= NQIDS
           /\ config.max_qps > 0 => max_qps(k) >= 1

\* A command line whose thread count setup may have cut to max_qps = 1, with
\* more clients than a worker can have sockets and a max_outstanding above
\* NQIDS: both caps of threadinfo_init apply.
C15_Witness ==
    /\ started
    /\ config.max_qps = 1
    /\ config.threads = 1
    /\ config.clients > MAX_SOCKETS
    /\ config.max_outstanding > NQIDS
    /\ nsocks(0) = MAX_SOCKETS
    /\ max_outstanding(0) = NQIDS
    /\ max_qps(0) = 1
    /\ \A k \in Workers : rcv[k].pc = "top"

\* The workers that completed at least one query.
Completers == { k \in Workers : threads[k].stats.num_completed > 0 }

\* C16: the totals sum_stats yields have latency_min equal to the minimum of
\* latency_min over the workers that completed at least one query,
\* latency_max equal to the maximum of latency_max over all workers, and
\* every other counter equal to the sum over the workers.
C16_SumStats ==
    main.pc \in {"cleanup", "done"} =>
      /\ Completers # {} =>
           /\ \E k \in Completers :
                main.total.latency_min = threads[k].stats.latency_min
           /\ \A k \in Completers :
                main.total.latency_min <= threads[k].stats.latency_min
      /\ \E k \in Workers :
           main.total.latency_max = threads[k].stats.latency_max
      /\ \A k \in Workers :
           main.total.latency_max >= threads[k].stats.latency_max
      /\ main.total.num_sent = Total("num_sent")
      /\ main.total.num_completed = Total("num_completed")
      /\ main.total.num_timedout = Total("num_timedout")
      /\ main.total.num_interrupted = Total("num_interrupted")
      /\ \A r \in 0 .. (NRCODES - 1) :
           main.total.rcodecounts[r]
             = SumOver([k \in Workers |-> threads[k].stats.rcodecounts[r]],
                       config.threads)

\* C17: the timeout sweep counts and moves a slot only if, at the moment of
\* the move (under the lock), the slot is on outstanding, its timestamp is
\* not the sentinel and now - timestamp >= timeout; num_timedout grows by the
\* number of slots the sweep takes off outstanding.
C17_TimeoutSweep ==
    [][\A k \in Workers :
         (rcv[k].pc = "sweep" /\ rcv'[k].pc = "check") =>
           /\ LET q == threads[k].queries[rcv[k].q]
              IN  /\ q.list = "outstanding"
                  /\ q.timestamp # ISC_UINT64_MAX
                  /\ q.timestamp <= rcv[k].now
                  /\ rcv[k].now - q.timestamp >= config.timeout
           /\ threads'[k].stats.num_timedout - threads[k].stats.num_timedout
                = Cardinality(
                    { q \in Slots :
                        /\ threads[k].queries[q].list = "outstanding"
                        /\ threads'[k].queries[q].list = "unused" })]_vars

\* C18: in verbose mode every slot on the unused list has desc = NULL:
\* receipt, timeout, cancellation and every send-failure release leave the
\* slot without a desc.
C18_UnusedNoDesc ==
    \A k \in Workers :
      \A q \in Slots :
        threads[k].queries[q].list = "unused" => ~threads[k].queries[q].desc

\* C19: the receiver leaves its loop without an interrupt only in a state
\* where done_sending is true and the outstanding list of its worker is
\* empty, and after a run that was not interrupted no slot is on outstanding.
C19_ReceiverExit ==
    /\ [][\A k \in Workers :
            (rcv[k].pc = "check" /\ rcv'[k].pc = "done") =>
              /\ threads[k].done_sending
              /\ threads[k].outstanding_queries = << >>]_vars
    /\ []((main.pc = "done" /\ ~interrupted) =>
            \A k \in Workers : threads[k].outstanding_queries = << >>)

\* C20: the sender transmits a query only on a socket whose readiness probe
\* of that iteration reported ready (a probe that reported not ready, timed
\* out or in progress makes the selector go on to the next socket), and when
\* none of the 2 * nsocks probes reports ready the slot goes back to the head
\* of unused and nothing is transmitted in that iteration.
C20_ReadySocketOnly ==
    /\ [][\A k \in Workers :
            (snd[k].pc = "send" /\ snd'[k].pc = "count") =>
              /\ snd[k].probe = "ready"
              /\ \A m \in net'[k].wire \ net[k].wire :
                   m.sock = threads[k].queries[snd[k].q].sock]_vars
    /\ [][\A k \in Workers :
            (snd[k].pc = "acquired" /\ snd'[k].pc = "loop") =>
              /\ ISC_LIST_HEAD(threads'[k].unused_queries) = snd[k].q
              /\ threads'[k].queries[snd[k].q].list = "unused"
              /\ net' = net]_vars


\* C21: in every step of the gathering of a batch the index of the receipt
\* records advances exactly when a response has been read from a socket (so
\* nrecvd is the number of successful receives, at most RECV_BATCH_SIZE, and
\* every record below nrecvd was filled in this batch), and a receive error
\* other than EAGAIN ends the gathering with the records counted so far.
C21_BatchRecords ==
    [][\A k \in Workers :
         (rcv[k].pc = "gather" /\ rcv'[k] # rcv[k]) =>
           LET i   == rcv[k].i
               got == net[k].resp \ net'[k].resp
           IN  /\ rcv'[k].i <= RECV_BATCH_SIZE
               /\ (rcv'[k].i = i + 1) <=> (Cardinality(got) = 1)
               /\ rcv'[k].saved_errno = "EINTR" =>
                    rcv'[k].pc = "correlate" /\ rcv'[k].nrecvd = i]_vars


\* The step is taken inside a LOCK(&tinfo->lock) .. UNLOCK section of
\* worker k: the sender between its LOCK at the in-flight check and the
\* UNLOCK after the socket selection, the sender putting a slot back after
\* a failure, the receiver's timeout sweep, the receiver's correlation.
MutexHeld(k) ==
    \/ lock[k] # "free"
    \/ lock'[k] # "free"
    \/ snd[k].pc \in {"fetch", "send"} /\ snd'[k].pc = "loop"
    \/ rcv[k].pc = "sweep" /\ rcv'[k].pc = "check"
    \/ rcv[k].pc = "correlate" /\ rcv'[k].pc = "post"

\* C22: while the sender and the receiver of a worker run, a step that
\* changes one of the worker's lists, or the list tag, the timestamp or the
\* desc of one of its slots, is taken with the worker's mutex held.
C22_WritesUnderLock ==
    [][\A k \in Workers :
         ( /\ Running(k)
           /\ \/ threads'[k].unused_queries # threads[k].unused_queries
              \/ threads'[k].outstanding_queries
                   # threads[k].outstanding_queries
              \/ \E q \in Slots :
                   \/ threads'[k].queries[q].list # threads[k].queries[q].list
                   \/ threads'[k].queries[q].timestamp
                        # threads[k].queries[q].timestamp
                   \/ threads'[k].queries[q].desc # threads[k].queries[q].desc )
         => MutexHeld(k)]_vars


\* The sender of worker 0 is blocked in TIMEDWAIT although the in-flight
\* count, as the sender computes it, is below the cap.
WaitingBelowCap ==
    /\ snd[0].pc = "wait"
    /\ ~U64GE(num_outstanding(threads[0].stats), max_outstanding(0))

\* C23: no lost wakeup at the in-flight cap.  Whenever the sender is
\* waiting on the condition variable and the receiver has reclaimed slots so
\* that the in-flight count is below the cap, the sender eventually leaves
\* the wait and acquires a slot; stop_time is ISC_UINT64_MAX in these runs,
\* so the deadline of the wait plays no part.
C23_NoLostWakeup == WaitingBelowCap ~> (snd[0].pc = "acquired")

\* The sender is waiting while a timeout sweep, which sends no signal of
\* its own, has brought the in-flight count below the cap.
C23_Witness ==
    /\ WaitingBelowCap
    /\ threads[0].stats.num_timedout = 1
    /\ threads[0].stats.num_completed = 0


\* C24: list discipline of normal operation.  The sender acquires the slot
\* at the head of unused and puts it at the head of outstanding; when it
\* releases the mutex the slot holds the sentinel; a slot reclaimed by the
\* timeout sweep or by the correlation is linked behind every slot that was
\* on unused; and a slot is not acquired while a slot that was on unused
\* when it was last reclaimed has not been acquired since.
C24_ListDiscipline ==
    [][\A k \in Workers :
         LET T  == threads[k]
             T1 == threads'[k]
         IN  /\ (snd[k].pc = "loop" /\ snd'[k].pc = "acquired") =>
                  LET q == snd'[k].q
                  IN  /\ q = ISC_LIST_HEAD(T.unused_queries)
                      /\ q = ISC_LIST_HEAD(T1.outstanding_queries)
                      /\ T.queries[q].before = {}
             /\ (snd[k].pc = "acquired" /\ snd'[k].pc = "fetch") =>
                  T1.queries[snd[k].q].timestamp = ISC_UINT64_MAX
             /\ (rcv[k].pc \in {"sweep", "correlate"} /\ rcv'[k] # rcv[k]) =>
                  \A q \in Slots :
                    (T.queries[q].list = "outstanding"
                       /\ T1.queries[q].list = "unused") =>
                      \E i \in 1 .. Len(T1.unused_queries) :
                        /\ T1.unused_queries[i] = q
                        /\ \A j \in 1 .. Len(T1.unused_queries) :
                             T1.unused_queries[j]
                               \in Members(T.unused_queries) => j < i]_vars


Reverse(s) == [i \in 1 .. Len(s) |-> s[Len(s) + 1 - i]]

\* The sender of worker k gives up the query it holds: encoder failure,
\* partial send, or a send error other than in-progress.
SendFailureStep(k) ==
    /\ snd[k].pc \in {"fetch", "send"}
    /\ snd'[k].pc = "loop"

\* What the claim says of the sender: the failure paths put the slot at the
\* head of unused and change neither num_sent nor another slot nor the order
\* of the other slots; a send that succeeds or is in progress leaves the
\* slot where it is, with the timestamp of this send.
SenderFailureFrame(k) ==
    LET T  == threads[k]
        T1 == threads'[k]
        q  == snd[k].q
    IN  /\ SendFailureStep(k) =>
             /\ ISC_LIST_HEAD(T1.unused_queries) = q
             /\ T1.queries[q].list = "unused"
             /\ T1.stats = T.stats
             /\ \A p \in Slots \ {q} : T1.queries[p] = T.queries[p]
             /\ ISC_LIST_UNLINK(T1.unused_queries, q)
                  = ISC_LIST_UNLINK(T.unused_queries, q)
             /\ T1.outstanding_queries
                  = ISC_LIST_UNLINK(T.outstanding_queries, q)
        /\ (snd[k].pc = "send" /\ snd'[k].pc = "count") =>
             /\ T1 = T
             /\ T.queries[q].timestamp = snd[k].now
             /\ T.queries[q].timestamp # ISC_UINT64_MAX

\* cancel_queries runs for the workers of an interrupted run.
CancelStep == main.pc = "cleanup" /\ main'.pc = "done" /\ interrupted

C26_DetailLength ==
    \A k \in Workers :
      threads[k].latency_num
        = Min(threads[k].stats.num_completed, MAX_DETAIL_NUM)


\* C27: for every record the correlation leaves to be counted as completed,
\* the arrival time recv_one recorded is at least the send timestamp copied
\* from the slot, so that when - sent does not wrap.
C27_LatencyNoWrap ==
    [][\A k \in Workers :
         (rcv[k].pc = "correlate" /\ rcv'[k].pc = "post") =>
           \A i \in 0 .. (rcv[k].nrecvd - 1) :
             LET rec == rcv'[k].recvd[i]
             IN  (~rec.short_response /\ ~rec.unexpected) =>
                   /\ rec.when >= rec.sent
                   /\ U64(rec.when - rec.sent) = rec.when - rec.sent]_vars


OutstandingOrdered(T) ==
    LET o     == T.outstanding_queries
        ts(i) == T.queries[o[i]].timestamp
    IN  \A i, j \in 1 .. Len(o) :
          i < j => /\ ts(j) # ISC_UINT64_MAX
                   /\ ts(i) >= ts(j)

\* No slot of outstanding that has been sent is expired at time now.
NoneExpired(T, now) ==
    \A q \in Members(T.outstanding_queries) :
      LET ts == T.queries[q].timestamp
      IN  (ts # ISC_UINT64_MAX /\ ts < now) => now - ts < config.timeout

\* C29: outstanding is ordered by send time with the sentinel at the head
\* only, and when process_timeouts returns, after its sweep or because the
\* tail is not expired, no sent slot of outstanding is expired at the
\* receiver's now.  Both are properties of the list as the mutex protects
\* it: they are stated for the states in which the mutex is free (while the
\* sender holds it between query_move and the store of the sentinel, the
\* head still carries the timestamp of its previous use).
C29_OrderedBySendTime ==
    /\ [](\A k \in Workers :
            lock[k] = "free" => OutstandingOrdered(threads[k]))
    /\ [][\A k \in Workers :
            ( /\ rcv[k].pc \in {"top", "sweep"}
              /\ rcv'[k].pc = "check"
              /\ lock'[k] = "free" )
            => NoneExpired(threads'[k], rcv[k].now)]_vars

\* A sweep has timed out the older of two queries and left the newer one,
\* sent one tick later, on outstanding.
C29_Witness ==
    /\ rcv[0].pc = "check"
    /\ rcv[0].now = Epoch + 1
    /\ threads[0].stats.num_timedout = 1
    /\ threads[0].stats.num_sent = 2
    /\ Len(threads[0].outstanding_queries) = 1
    /\ \A q \in Members(threads[0].outstanding_queries) :
         threads[0].queries[q].timestamp = Epoch + 1


\* C30: no thread uses the times of the run before main has set them: the
\* interval-statistics thread reads times.start_time, and a sender or a
\* receiver leaves wait_for_start, only after main has assigned the times
\* and broadcast the start flag.
C30_TimesSetBeforeUse ==
    /\ [](\A k \in Workers :
            (snd[k].pc # "start" \/ rcv[k].pc # "start") =>
              started /\ main.pc # "init")
    /\ [][(stats_thread.pc = "init" /\ stats_thread'.pc = "start") =>
            main.pc # "init"]_vars

====
